---- MODULE Spec2Model ----
(***************************************************************************)
(* Model of lib/privacy.js (class Privacy): the two asynchronous methods   *)
(* assess(items) and getConsentMetadata(items), their awaits on the        *)
(* DPCMService collaborator, the status reduction of assess and the key    *)
(* construction of getConsentMetadata.                                     *)
(*                                                                         *)
(* JavaScript objects are records whose DOMAIN is the set of own           *)
(* properties, arrays are sequences (index 0 of the source is index 1      *)
(* here), a Set is a TLA+ set, Array.from(Set) is the sequence of first    *)
(* occurrences.                                                            *)
(***************************************************************************)
EXTENDS Integers, Sequences, FiniteSets, TLC

(***************************************************************************)
(* Bounds of the model.                                                    *)
(***************************************************************************)
\* longest array the collaborator resolves requestApproval with
MaxAssessment == 3
\* longest items array a caller passes to getConsentMetadata
MaxItems == 2

(***************************************************************************)
(* JavaScript values.                                                      *)
(***************************************************************************)
\* the JavaScript value null (spelled so that it is no identifier or status)
Null == "<null>"

\* the sentinel of privacy.js:135
ConsentRequired == "CSIBT0033I"
\* a denial reason of the service other than the sentinel
OtherReason == "CSIBT0030E"

\* `typeof v` for the values requestApproval may resolve with (privacy.js:119)
TypeOf(v) ==
    CASE v.kind = "array"     -> "object"
      [] v.kind = "object"    -> "object"
      [] v.kind = "null"      -> "object"
      [] v.kind = "string"    -> "string"
      [] v.kind = "number"    -> "number"
      [] v.kind = "undefined" -> "undefined"

\* Array.isArray (privacy.js:114)
IsArray(v) == v.kind = "array"

(***************************************************************************)
(* What DPCMService.requestApproval resolves with.  An Assessment          *)
(* (typedef, privacy.js:48-63) carries a result whose first entry is       *)
(* either approved or denied with a reason; the reduction also meets       *)
(* items without result and reasons without messageId.                     *)
(***************************************************************************)
ApprovedEntry == [approved |-> TRUE]
DeniedEntry(m) == [approved |-> FALSE, reason |-> [messageId |-> m]]
NoMessageIdEntry ==
    [approved |-> FALSE, reason |-> [messageDescription |-> "denied"]]

FirstEntries ==
    {ApprovedEntry, DeniedEntry(ConsentRequired), DeniedEntry(OtherReason),
     NoMessageIdEntry}

\* result arrays: one entry, or two entries whose second contradicts the first
Results ==
    {<<e>> : e \in FirstEntries}
      \cup {<<ApprovedEntry, DeniedEntry(ConsentRequired)>>,
            <<DeniedEntry(ConsentRequired), ApprovedEntry>>,
            <<DeniedEntry(OtherReason), ApprovedEntry>>}

AssessmentItems ==
    {[purposeId |-> "p1"]}
      \cup {[purposeId |-> "p1", result |-> r] : r \in Results}

SeqsUpTo(S, n) == UNION {[1..k -> S] : k \in 0..n}

ArrayValues ==
    {[kind |-> "array", elems |-> s] :
        s \in SeqsUpTo(AssessmentItems, MaxAssessment)}

NonArrayValues ==
    {[kind |-> k] : k \in {"object", "string", "number", "null", "undefined"}}

ApprovalValues == ArrayValues \cup NonArrayValues

(***************************************************************************)
(* What a collaborator operation rejects with: an error object that may    *)
(* carry a response, which may carry a data payload.                       *)
(***************************************************************************)
Payloads ==
    {[messageId |-> "E1", messageDescription |-> "bad"],
     [messageId |-> "CSIBT0004E", messageDescription |-> "unauthorized"]}

Errors ==
    {[message |-> "Network Error"],
     [message |-> "Request failed", response |-> [status |-> 500]]}
      \cup {[message |-> "Request failed",
             response |-> [status |-> 400, data |-> p]] : p \in Payloads}

\* the TypeError a property read of undefined raises
TypeError == [name |-> "TypeError"]

(***************************************************************************)
(* How a try block or a whole call completes.                              *)
(***************************************************************************)
Return(v) == [kind |-> "return", value |-> v]
Throw(e) == [kind |-> "throw", error |-> e]

(***************************************************************************)
(* assess: the reduction of privacy.js:124-146.                            *)
(***************************************************************************)
\* ia.result is truthy (an array is truthy even when empty)
HasResult(ia) == "result" \in DOMAIN ia

\* ia.result && ia.result[0].approved  (privacy.js:127)
ItemApproved(ia) ==
    /\ HasResult(ia)
    /\ "approved" \in DOMAIN ia.result[1]
    /\ ia.result[1].approved = TRUE

\* ia.result && ia.result[0].reason.messageId === "CSIBT0033I" (privacy.js:135)
ItemConsent(ia) ==
    /\ HasResult(ia)
    /\ "messageId" \in DOMAIN ia.result[1].reason
    /\ ia.result[1].reason.messageId = ConsentRequired

\* the property reads of lines 127 and 135 that hit undefined: result[0] of
\* an empty result, reason of an entry that is not approved and has none
ItemThrows(ia) ==
    /\ HasResult(ia)
    /\ \/ Len(ia.result) = 0
       \/ /\ ~ItemApproved(ia)
          /\ "reason" \notin DOMAIN ia.result[1]

\* ScanItem with an approved item overwriting an earlier "consent"
ScanItem_ApprovedOverwrites(status, ia) ==
    IF ItemApproved(ia) THEN "approved"
    ELSE IF ItemConsent(ia) THEN "consent" ELSE status

\* ScanItem with an item that is neither approved nor consent counted as a
\* denial
ScanItem_UndecidedDenies(status, ia) ==
    IF ItemApproved(ia)
    THEN (IF status = Null THEN "approved" ELSE status)
    ELSE IF ItemConsent(ia) THEN "consent" ELSE "denied"

\* one iteration of the for loop (privacy.js:125-140)
ScanItem(status, ia) ==
    IF ItemApproved(ia)
    THEN (IF status = Null THEN "approved" ELSE status)
    ELSE IF ItemConsent(ia) THEN "consent" ELSE status

\* the for loop from index i on, starting with `status`
RECURSIVE Scan(_, _, _)
Scan(assessment, i, status) ==
    IF i > Len(assessment) THEN [threw |-> FALSE, status |-> status]
    ELSE IF ItemThrows(assessment[i]) THEN [threw |-> TRUE]
    ELSE Scan(assessment, i + 1, ScanItem(status, assessment[i]))

\* FinalStatus without the fallback to "denied"
FinalStatus_NoFallback(status) == status

\* privacy.js:142-144
FinalStatus(status) == IF status = Null THEN "denied" ELSE status

\* privacy.js:115-121
InvalidDatatype(v) ==
    [status |-> "error",
     data |-> [messageId |-> "INVALID_DATATYPE",
               messageDescription |->
                   "'assessment' is expected to be an array. Received "
                       \o TypeOf(v)]]

\* ProcessAssessment with the scan starting at the second item
ProcessAssessment_SkipsFirst(v) ==
    IF ~IsArray(v) THEN Return(InvalidDatatype(v))
    ELSE LET s == Scan(v.elems, 2, Null)
         IN  IF s.threw THEN Throw(TypeError)
             ELSE Return([status |-> FinalStatus(s.status),
                          assessment |-> v.elems])

\* ProcessAssessment throwing the INVALID_DATATYPE object instead of
\* returning it
ProcessAssessment_ThrowsInvalid(v) ==
    IF ~IsArray(v) THEN Throw(InvalidDatatype(v))
    ELSE LET s == Scan(v.elems, 1, Null)
         IN  IF s.threw THEN Throw(TypeError)
             ELSE Return([status |-> FinalStatus(s.status),
                          assessment |-> v.elems])

\* the try block of assess once requestApproval has resolved with v
\* (privacy.js:113-146)
ProcessAssessment(v) ==
    IF ~IsArray(v) THEN Return(InvalidDatatype(v))
    ELSE LET s == Scan(v.elems, 1, Null)
         IN  IF s.threw THEN Throw(TypeError)
             ELSE Return([status |-> FinalStatus(s.status),
                          assessment |-> v.elems])

(***************************************************************************)
(* The catch block shared by both methods (privacy.js:147-156, 296-305).   *)
(* error.response.data is read without a guard: when the error has no      *)
(* response the read itself raises a TypeError, which leaves the method.   *)
(***************************************************************************)
Catch(error) ==
    IF "response" \notin DOMAIN error THEN Throw(TypeError)
    ELSE IF "data" \in DOMAIN error.response
         THEN Return([status |-> "error", detail |-> error.response.data])
         ELSE Return([status |-> "error"])

\* try { body } catch (error) { ... }
TryCatch(c) == IF c.kind = "throw" THEN Catch(c.error) ELSE c

(***************************************************************************)
(* getConsentMetadata: the loop of privacy.js:274-285.                     *)
(***************************************************************************)
\* the items a caller passes: purposeId is required, accessTypeId may be
\* absent, null, empty or a name, attributeId may be absent
AccessTypeIds == {Null, "", "default", "read"}

RequestItems ==
    UNION {
      {[purposeId |-> p], [purposeId |-> p, attributeId |-> "email"]}
        \cup {[purposeId |-> p, accessTypeId |-> a] : a \in AccessTypeIds}
        \cup {[purposeId |-> p, attributeId |-> "email", accessTypeId |-> a] :
                 a \in AccessTypeIds}
      : p \in {"p1", "eula1"}}

\* the items arrays given to assess, which hands them to requestApproval as is
AssessArguments ==
    {<<>>, <<[purposeId |-> "p1", accessTypeId |-> "default"]>>,
     <<[purposeId |-> "p1"], [purposeId |-> "p2"]>>}

\* !item['accessTypeId'] || item['accessTypeId'] == null  (privacy.js:280)
LacksAccessType(item) ==
    \/ "accessTypeId" \notin DOMAIN item
    \/ item.accessTypeId = Null
    \/ item.accessTypeId = ""

\* FillDefault that leaves the item as the caller passed it
FillDefault_Never(item) == item

\* item.accessTypeId = "default" when it is lacking (privacy.js:280-282)
FillDefault(item) ==
    IF LacksAccessType(item)
    THEN ("accessTypeId" :> "default") @@ item
    ELSE item

\* StringUtils.getOrDefault(obj[field], dflt)
GetOrDefault(obj, field, dflt) ==
    IF field \in DOMAIN obj /\ obj[field] # Null THEN obj[field] ELSE dflt

\* the template literal of privacy.js:284
SlotKey(item) ==
    item.purposeId \o "/" \o GetOrDefault(item, "attributeId", "")
        \o "." \o GetOrDefault(item, "accessTypeId", "")

\* Set.prototype.add on a Set kept in insertion order
SetAdd(seq, x) ==
    IF \E k \in 1..Len(seq) : seq[k] = x THEN seq ELSE Append(seq, x)

\* one iteration of the loop on items[i]; st holds the caller's array and
\* the two Sets (privacy.js:277-285)
CollectItem(st, i) ==
    LET item == FillDefault(st.items[i])
    IN  [items       |-> [st.items EXCEPT ![i] = item],
         purposes    |-> SetAdd(st.purposes, st.items[i].purposeId),
         itemNameSet |-> st.itemNameSet \cup {SlotKey(item)}]

RECURSIVE CollectFrom(_, _)
CollectFrom(st, i) ==
    IF i > Len(st.items) THEN st ELSE CollectFrom(CollectItem(st, i), i + 1)

\* the whole loop on the caller's array (privacy.js:275-285)
Collect(its) ==
    CollectFrom([items |-> its, purposes |-> <<>>, itemNameSet |-> {}], 1)

\* what the catalogue fetch and processConsentMetadata resolve with
CatalogResponses == {[purposes |-> <<>>], [purposes |-> <<"p1">>]}

MetadataValues ==
    {[eula |-> <<>>, default |-> <<>>],
     [eula |-> <<[purposeId |-> "eula1"]>>, default |-> <<>>]}

(***************************************************************************)
(* State of one call on a Privacy instance.                                *)
(***************************************************************************)
VARIABLES
    pc,           \* "idle", the collaborator operation the method awaits,
                  \* "returned" or "thrown"
    method,       \* the method called: "none", "assess", "getConsentMetadata"
    argument,     \* the items array as the caller passed it
    items,        \* the caller's items array as it is now
    purposes,     \* Array.from(purposes) of getConsentMetadata
    itemNameSet,  \* itemNameSet of getConsentMetadata
    outstanding,  \* the collaborator requests in flight, oldest first
    log,          \* the collaborator requests issued and settled so far
    reply,        \* how the collaborator settled the last request
    result        \* the promise the method returned to the caller

vars ==
    <<pc, method, argument, items, purposes, itemNameSet, outstanding, log,
      reply, result>>

Pending == [state |-> "pending"]

\* the promise of an async function that completed with c
Settled(c) ==
    IF c.kind = "return"
    THEN [state |-> "fulfilled", value |-> c.value]
    ELSE [state |-> "rejected", reason |-> c.error]

Init ==
    /\ pc = "idle"
    /\ method = "none"
    /\ argument = <<>>
    /\ items = <<>>
    /\ purposes = <<>>
    /\ itemNameSet = {}
    /\ outstanding = <<>>
    /\ log = <<>>
    /\ reply = [kind |-> "none"]
    /\ result = Pending

\* service.<op>(arg) is called and awaited, after `queue` and `events`
Issue(queue, events, op, arg) ==
    /\ outstanding' = Append(queue, [op |-> op, arg |-> arg])
    /\ log' = Append(events, [ev |-> "issue", op |-> op])
    /\ pc' = op

\* the method is suspended at `await service.<op>(...)`
Awaiting(op) ==
    /\ pc = op
    /\ outstanding # <<>>
    /\ Head(outstanding).op = op

\* the awaited request settles and nothing else is requested
Settle(op, kind) ==
    /\ outstanding' = Tail(outstanding)
    /\ log' = Append(log, [ev |-> kind, op |-> op])

\* the method completes with c: its promise settles
Complete(c) ==
    /\ pc' = (IF c.kind = "return" THEN "returned" ELSE "thrown")
    /\ result' = Settled(c)

(***************************************************************************)
(* assess (privacy.js:104-157)                                             *)
(***************************************************************************)
\* the caller calls assess(its): requestApproval(its) is awaited
CallAssess ==
    /\ pc = "idle"
    /\ \E its \in AssessArguments :
           /\ method' = "assess"
           /\ argument' = its
           /\ items' = its
           /\ Issue(outstanding, log, "requestApproval", its)
    /\ UNCHANGED <<purposes, itemNameSet, reply, result>>

\* requestApproval resolves with v: the rest of the try block runs
ApprovalResolves ==
    /\ Awaiting("requestApproval")
    /\ \E v \in ApprovalValues :
           /\ reply' = [kind |-> "resolve", value |-> v]
           /\ Complete(TryCatch(ProcessAssessment(v)))
    /\ Settle("requestApproval", "resolve")
    /\ UNCHANGED <<method, argument, items, purposes, itemNameSet>>

\* requestApproval rejects with e: the catch block runs
ApprovalRejects ==
    /\ Awaiting("requestApproval")
    /\ \E e \in Errors :
           /\ reply' = [kind |-> "reject", error |-> e]
           /\ Complete(Catch(e))
    /\ Settle("requestApproval", "reject")
    /\ UNCHANGED <<method, argument, items, purposes, itemNameSet>>

(***************************************************************************)
(* getConsentMetadata (privacy.js:269-306)                                 *)
(***************************************************************************)
\* the caller calls getConsentMetadata(its): the loop runs and the
\* catalogue fetch is awaited
CallGetConsentMetadata ==
    /\ pc = "idle"
    /\ \E its \in SeqsUpTo(RequestItems, MaxItems) :
           LET st == Collect(its)
           IN  /\ method' = "getConsentMetadata"
               /\ argument' = its
               /\ items' = st.items
               /\ purposes' = st.purposes
               /\ itemNameSet' = st.itemNameSet
               /\ Issue(outstanding, log, "getConsentMetadata", st.purposes)
    /\ UNCHANGED <<reply, result>>

\* the fetch resolves: processConsentMetadata is awaited
CatalogResolves ==
    /\ Awaiting("getConsentMetadata")
    /\ \E response \in CatalogResponses :
           /\ reply' = [kind |-> "resolve", value |-> response]
           /\ Issue(Tail(outstanding),
                    Append(log, [ev |-> "resolve", op |-> "getConsentMetadata"]),
                    "processConsentMetadata",
                    [itemNameSet |-> itemNameSet, response |-> response])
    /\ UNCHANGED <<method, argument, items, purposes, itemNameSet, result>>

\* CatalogRejects that goes on to processConsentMetadata after the failure
CatalogRejects_GoesOn ==
    /\ Awaiting("getConsentMetadata")
    /\ \E e \in Errors :
           /\ reply' = [kind |-> "reject", error |-> e]
           /\ Issue(Tail(outstanding),
                    Append(log, [ev |-> "reject", op |-> "getConsentMetadata"]),
                    "processConsentMetadata",
                    [itemNameSet |-> itemNameSet, response |-> e])
    /\ UNCHANGED <<method, argument, items, purposes, itemNameSet, result>>

\* the fetch rejects with e: the catch block runs
CatalogRejects ==
    /\ Awaiting("getConsentMetadata")
    /\ \E e \in Errors :
           /\ reply' = [kind |-> "reject", error |-> e]
           /\ Complete(Catch(e))
    /\ Settle("getConsentMetadata", "reject")
    /\ UNCHANGED <<method, argument, items, purposes, itemNameSet>>

\* processConsentMetadata resolves: the method returns
ProcessResolves ==
    /\ Awaiting("processConsentMetadata")
    /\ \E metadata \in MetadataValues :
           /\ reply' = [kind |-> "resolve", value |-> metadata]
           /\ Complete(Return([status |-> "done", metadata |-> metadata]))
    /\ Settle("processConsentMetadata", "resolve")
    /\ UNCHANGED <<method, argument, items, purposes, itemNameSet>>

\* processConsentMetadata rejects with e: the catch block runs
ProcessRejects ==
    /\ Awaiting("processConsentMetadata")
    /\ \E e \in Errors :
           /\ reply' = [kind |-> "reject", error |-> e]
           /\ Complete(Catch(e))
    /\ Settle("processConsentMetadata", "reject")
    /\ UNCHANGED <<method, argument, items, purposes, itemNameSet>>

Next ==
    \/ CallAssess
    \/ ApprovalResolves
    \/ ApprovalRejects
    \/ CallGetConsentMetadata
    \/ CatalogResolves
    \/ CatalogRejects
    \/ ProcessResolves
    \/ ProcessRejects

Spec == Init /\ [][Next]_vars

(***************************************************************************)
(* Vocabulary of the properties.                                           *)
(***************************************************************************)
\* requestApproval resolved with an array and assess has run on it
AssessedArray ==
    /\ method = "assess"
    /\ reply.kind = "resolve"
    /\ IsArray(reply.value)

\* the array requestApproval resolved with
Resolved == reply.value.elems

Fulfilled == result.state = "fulfilled"

\* the first result entry of ia exists and has approved = true
FirstApproved(ia) ==
    /\ "result" \in DOMAIN ia
    /\ Len(ia.result) >= 1
    /\ "approved" \in DOMAIN ia.result[1]
    /\ ia.result[1].approved

\* the first result entry of ia carries a reason with messageId m
FirstReasonIs(ia, m) ==
    /\ "result" \in DOMAIN ia
    /\ Len(ia.result) >= 1
    /\ "reason" \in DOMAIN ia.result[1]
    /\ "messageId" \in DOMAIN ia.result[1].reason
    /\ ia.result[1].reason.messageId = m

\* ia has no result, or its first entry is not approved and its reason has
\* no messageId
Undecided(ia) ==
    \/ "result" \notin DOMAIN ia
    \/ /\ Len(ia.result) >= 1
       /\ ~FirstApproved(ia)
       /\ "reason" \in DOMAIN ia.result[1]
       /\ "messageId" \notin DOMAIN ia.result[1].reason

RemoveAt(s, k) == SubSeq(s, 1, k - 1) \o SubSeq(s, k + 1, Len(s))

\* the error the collaborator rejected with carries a response.data payload
HasPayload(e) == "response" \in DOMAIN e /\ "data" \in DOMAIN e.response

(***************************************************************************)
(* C1: whenever requestApproval resolved with an array holding at least    *)
(* one item whose (first) reason messageId is CSIBT0033I, assess returns   *)
(* status "consent", wherever that item stands and whatever the others are.*)
(***************************************************************************)
C1_ConsentPrecedence ==
    (AssessedArray
       /\ \E k \in 1..Len(Resolved) : FirstReasonIs(Resolved[k], ConsentRequired))
      => (Fulfilled /\ result.value.status = "consent")

\* a consent item at the head, followed by an approved and a denied item
C1_Witness ==
    /\ AssessedArray
    /\ Len(Resolved) = 3
    /\ FirstReasonIs(Resolved[1], ConsentRequired)
    /\ FirstApproved(Resolved[2])
    /\ FirstReasonIs(Resolved[3], OtherReason)
    /\ Fulfilled
    /\ result.value.status = "consent"

(***************************************************************************)
(* C2: whenever a collaborator operation rejected, the call has returned   *)
(* a value with status "error"; its promise is never rejected.             *)
(***************************************************************************)
C2_FailureIsReturned ==
    reply.kind = "reject" => (Fulfilled /\ result.value.status = "error")

(***************************************************************************)
(* C3: whenever assess returns status "approved", every item of the        *)
(* returned assessment has a first result entry with approved = true.      *)
(***************************************************************************)
C3_ApprovedMeansAllApproved ==
    (method = "assess" /\ Fulfilled /\ result.value.status = "approved")
      => \A k \in 1..Len(result.value.assessment) :
             FirstApproved(result.value.assessment[k])

C5_AllApprovedIsApproved ==
    (AssessedArray
       /\ Len(Resolved) >= 1
       /\ \A k \in 1..Len(Resolved) : FirstApproved(Resolved[k]))
      => (Fulfilled
            /\ result.value = [status |-> "approved", assessment |-> Resolved])

C5_Witness ==
    /\ AssessedArray
    /\ Len(Resolved) >= 2
    /\ \A k \in 1..Len(Resolved) : FirstApproved(Resolved[k])
    /\ Fulfilled
    /\ result.value.status = "approved"
    /\ result.value.assessment = Resolved

(***************************************************************************)
(* C6: whenever requestApproval resolved with a value that is no array,    *)
(* assess returns status "error" with data.messageId "INVALID_DATATYPE",   *)
(* its promise is not rejected and the value has no assessment field.      *)
(***************************************************************************)
C6_NonArrayIsInvalidDatatype ==
    (method = "assess" /\ reply.kind = "resolve" /\ ~IsArray(reply.value))
      => /\ Fulfilled
         /\ result.value.status = "error"
         /\ "data" \in DOMAIN result.value
         /\ result.value.data.messageId = "INVALID_DATATYPE"
         /\ "assessment" \notin DOMAIN result.value

C6_Witness ==
    /\ method = "assess"
    /\ reply.kind = "resolve"
    /\ reply.value.kind = "null"
    /\ Fulfilled
    /\ result.value.data.messageId = "INVALID_DATATYPE"

(***************************************************************************)
(* C7: whenever a collaborator operation rejected with an error, the call  *)
(* has returned {status: "error", detail: P} when the error carries the    *)
(* payload P = response.data, and exactly {status: "error"} when it        *)
(* carries none.                                                           *)
(***************************************************************************)
C7_DetailIsPayload ==
    reply.kind = "reject"
      => /\ Fulfilled
         /\ result.value =
                (IF HasPayload(reply.error)
                 THEN [status |-> "error", detail |-> reply.error.response.data]
                 ELSE [status |-> "error"])

(***************************************************************************)
(* C8: in one call at most one collaborator request is in flight, no       *)
(* collaborator operation is issued twice, assess issues requestApproval   *)
(* only, getConsentMetadata issues the catalogue fetch first and           *)
(* processConsentMetadata only right after that fetch resolved, and the    *)
(* call leaves the pending state once: a settled call has nothing in       *)
(* flight, a returned value carries one of the statuses of its method,     *)
(* and a settled promise never changes again.                              *)
(***************************************************************************)
Issued(op) ==
    Cardinality({k \in 1..Len(log) : log[k] = [ev |-> "issue", op |-> op]})

Operations == {"requestApproval", "getConsentMetadata", "processConsentMetadata"}

Statuses(m) ==
    IF m = "assess" THEN {"approved", "consent", "denied", "error"}
    ELSE {"done", "error"}

C8_State ==
    /\ Len(outstanding) <= 1
    /\ \A op \in Operations : Issued(op) <= 1
    /\ method = "assess"
         => Issued("getConsentMetadata") + Issued("processConsentMetadata") = 0
    /\ method = "getConsentMetadata" => Issued("requestApproval") = 0
    /\ method # "none" => log[1].ev = "issue"
    /\ \A k \in 1..Len(log) :
           log[k] = [ev |-> "issue", op |-> "processConsentMetadata"]
             => /\ k > 1
                /\ log[k - 1] = [ev |-> "resolve", op |-> "getConsentMetadata"]
    /\ \A k \in 1..Len(log) :
           log[k].ev = "reject" => k = Len(log)
    /\ (pc \in {"returned", "thrown"}) <=> (result # Pending)
    /\ pc \in Operations <=> Len(outstanding) = 1
    /\ pc \in {"returned", "thrown"}
         => log[Len(log)].ev \in {"resolve", "reject"}
    /\ Fulfilled => result.value.status \in Statuses(method)

C8_Step ==
    /\ result # Pending => UNCHANGED vars
    /\ Len(log') >= Len(log)

Omits(item) == "accessTypeId" \notin DOMAIN item \/ item.accessTypeId = Null

WithDefault(item) ==
    [f \in DOMAIN item \cup {"accessTypeId"} |->
        IF f = "accessTypeId" THEN "default" ELSE item[f]]

\* what the collaborator was handed in this call
SentPurposes(st) ==
    pc = "getConsentMetadata" => Head(outstanding).arg = st.purposes

SentKeys(st) ==
    pc = "processConsentMetadata"
      => Head(outstanding).arg.itemNameSet = st.itemNameSet

C9_OmittedIsDefault ==
    method = "getConsentMetadata"
      => \A i \in 1..Len(argument) :
             Omits(argument[i])
               => LET st == Collect([argument EXCEPT ![i] = WithDefault(@)])
                  IN  /\ purposes = st.purposes
                      /\ itemNameSet = st.itemNameSet
                      /\ SentPurposes(st)
                      /\ SentKeys(st)
                      /\ items[i] = WithDefault(argument[i])

\* one item omits accessTypeId, the other has it null, and the keys are
\* with processConsentMetadata
C9_Witness ==
    /\ method = "getConsentMetadata"
    /\ pc = "processConsentMetadata"
    /\ Len(argument) = 2
    /\ "accessTypeId" \notin DOMAIN argument[1]
    /\ "attributeId" \in DOMAIN argument[1]
    /\ "accessTypeId" \in DOMAIN argument[2]
    /\ argument[2].accessTypeId = Null
    /\ items[1].accessTypeId = "default"
    /\ items[2].accessTypeId = "default"
    /\ Head(outstanding).arg.itemNameSet = itemNameSet

====
